---- MODULE Spec2Model ----
(***************************************************************************)
(* KubernetesImpl (go/metaparticle/kubernetes_impl.go): Run, Logs and      *)
(* Cancel against an orchestration platform that stores Deployments,       *)
(* Services and Pods.  Every remote call of the code is one step of the    *)
(* caller; the platform and its other clients move in between.             *)
(***************************************************************************)
EXTENDS Integers, Sequences, FiniteSets, TLC

\* ------------------------------------------------------------------ bounds

MaxPods == 2
MaxPorts == 2

\* ------------------------------------------------------------ input domains

PortAt(i) == CASE i = 1 -> 443 [] i = 2 -> 80 [] OTHER -> 8000 + i

\* Ports of a Runtime: none, or MaxPorts of them, not in ascending order.
PortLists == { <<>>, [i \in 1..MaxPorts |-> PortAt(i)] }

ReplicaCounts == {0, 2}

ImageArgs == {"", "nginx", "redis"}

NameArgs == {"", "web"}

ResourceNames == {"web"}

NilConfig == [nil |-> TRUE, Replicas |-> 0, Ports |-> <<>>, PublicAddress |-> FALSE]

Runtimes ==
    { [nil |-> FALSE, Replicas |-> r, Ports |-> p, PublicAddress |-> b] :
        r \in ReplicaCounts, p \in PortLists, b \in BOOLEAN }

ConfigArgs == Runtimes \cup {NilConfig}

\* ------------------------------------------------------------------ errors

ErrNil == "nil"

errEmptyImageName == "errEmptyImageName"

errEmptyContainerName == "errEmptyContainerName"

errNilRuntimeConfig == "errNilRuntimeConfig"

errNoRunningContainer == "errNoRunningContainer"

ErrNotFound == "NotFound"

ErrAlreadyExists == "AlreadyExists"

ErrServer == "ServerError"

ErrStream == "StreamError"

IsNotFound(e) == e = ErrNotFound

\* ------------------------------------------------------------------ values

NoObject == [kind |-> "none"]

NoPod == [app |-> "", containerStatuses |-> <<>>, nil |-> TRUE]

Pod(app, statuses) == [app |-> app, containerStatuses |-> statuses, nil |-> FALSE]

PodKinds ==
    { Pod("web", <<>>), Pod("web", <<[running |-> FALSE]>>),
      Pod("web", <<[running |-> TRUE]>>), Pod("db", <<[running |-> TRUE]>>) }

NoList == [called |-> FALSE, err |-> ErrNil, items |-> <<>>]

NoSnapshot == [valid |-> FALSE, dep |-> "absent", svc |-> "absent"]

Digit(d) ==
    CASE d = 0 -> "0" [] d = 1 -> "1" [] d = 2 -> "2" [] d = 3 -> "3" [] d = 4 -> "4"
      [] d = 5 -> "5" [] d = 6 -> "6" [] d = 7 -> "7" [] d = 8 -> "8" [] OTHER -> "9"

RECURSIVE Sprintf_d(_)
Sprintf_d(n) == IF n < 10 THEN Digit(n) ELSE Sprintf_d(n \div 10) \o Digit(n % 10)

Sprintf_app(name) == "app=" \o name

Min(S) == CHOOSE x \in S : \A y \in S : x <= y

VARIABLES
    deployments,    \* platform: name -> stored Deployment, or NoObject
    services,       \* platform: name -> stored Service, or NoObject
    pods,           \* platform: the pods, in the order the platform lists them
    pc,             \* caller: where it stands
    op,             \* caller: "none", "Run", "Logs" or "Cancel"
    image,          \* caller: argument of Run
    name,           \* caller: argument of Run, Logs, Cancel
    config,         \* caller: argument of Run
    err,            \* caller: the error the call returned (at pc = "done")
    calls,          \* history: the remote calls the current call has issued
    pre,            \* history: the stored objects when the call began
    listed,         \* history: the platform's answer to the last pod listing
    answered        \* history: the error the last remote call answered

vars ==
    <<deployments, services, pods, pc, op, image, name, config, err, calls, pre, listed,
      answered>>

platform == <<deployments, services, pods>>

args == <<op, image, name, config>>

\* ------------------------------------------------------- objects assembled

NewDeployment(img, nm, cfg) ==
    [ kind |-> "Deployment",
      name |-> nm,
      namespace |-> "default",
      labels |-> [app |-> nm],
      replicas |-> cfg.Replicas,
      selector |-> [app |-> nm],
      templateLabels |-> [app |-> nm],
      containers |->
        << [ name |-> nm, image |-> img,
             ports |-> [i \in 1..Len(cfg.Ports) |-> [containerPort |-> cfg.Ports[i]]] ] >> ]

\* Service whose ports are named from 1.
NewService_NamedFromOne(img, nm, cfg) ==
    [ kind |-> "Service",
      name |-> nm,
      namespace |-> "default",
      labels |-> [app |-> nm],
      ports |->
        [ i \in 1..Len(cfg.Ports) |->
            [ name |-> Sprintf_d(i),
              port |-> cfg.Ports[i],
              targetPort |-> [type |-> "Int", intVal |-> cfg.Ports[i]],
              protocol |-> "TCP" ] ],
      selector |-> [app |-> nm],
      type |-> IF cfg.PublicAddress THEN "LoadBalancer" ELSE "" ]

NewService(img, nm, cfg) ==
    [ kind |-> "Service",
      name |-> nm,
      namespace |-> "default",
      labels |-> [app |-> nm],
      ports |->
        [ i \in 1..Len(cfg.Ports) |->
            [ name |-> Sprintf_d(i - 1),
              port |-> cfg.Ports[i],
              targetPort |-> [type |-> "Int", intVal |-> cfg.Ports[i]],
              protocol |-> "TCP" ] ],
      selector |-> [app |-> nm],
      type |-> IF cfg.PublicAddress THEN "LoadBalancer" ELSE "" ]

\* ------------------------------------------------------------ the platform

Stored(store, nm) == IF nm \in DOMAIN store THEN store[nm] ELSE NoObject

Get(store, nm, fault) ==
    IF fault THEN ErrServer
    ELSE IF Stored(store, nm) = NoObject THEN ErrNotFound ELSE ErrNil

CreateErr(store, obj, fault) ==
    IF fault \/ obj.name \notin DOMAIN store THEN ErrServer
    ELSE IF store[obj.name] # NoObject THEN ErrAlreadyExists ELSE ErrNil

UpdateErr(store, obj, fault) ==
    IF fault \/ obj.name \notin DOMAIN store THEN ErrServer
    ELSE IF store[obj.name] = NoObject THEN ErrNotFound ELSE ErrNil

DeleteErr(store, nm, fault) ==
    IF fault THEN ErrServer
    ELSE IF Stored(store, nm) = NoObject THEN ErrNotFound ELSE ErrNil

Put(store, obj) == [store EXCEPT ![obj.name] = obj]

Remove(store, nm) == [store EXCEPT ![nm] = NoObject]

DefaultedService(svc) == IF svc.type = "" THEN [svc EXCEPT !.type = "ClusterIP"] ELSE svc

\* The platform's answer to a listing: it fails, it returns at most `limit` of
\* the matching pods, or (a server that does not support limit) all of them.
ListAnswers == {"error", "limited", "all"}

PodsList(labelSelector, limit, answer) ==
    IF answer = "error" THEN [called |-> TRUE, err |-> ErrServer, items |-> <<>>]
    ELSE LET match == SelectSeq(pods, LAMBDA p : Sprintf_app(p.app) = labelSelector)
             n == IF answer = "limited" /\ limit > 0 /\ Len(match) > limit
                  THEN limit ELSE Len(match)
         IN  [called |-> TRUE, err |-> ErrNil, items |-> SubSeq(match, 1, n)]

\* ----------------------------------------------------------------- findPod

ListLimit == 1

\* findPod that takes the first pod listed, running or not.
findPod_FirstListed(nm, answer) ==
    IF Len(nm) = 0
    THEN [pod |-> NoPod, err |-> errEmptyContainerName, list |-> NoList]
    ELSE LET podList == PodsList(Sprintf_app(nm), ListLimit, answer)
         IN  IF podList.err # ErrNil
             THEN [pod |-> NoPod, err |-> podList.err, list |-> podList]
             ELSE IF Len(podList.items) = 0
             THEN [pod |-> NoPod, err |-> errNoRunningContainer, list |-> podList]
             ELSE [pod |-> podList.items[1], err |-> ErrNil, list |-> podList]

findPod(nm, answer) ==
    IF Len(nm) = 0
    THEN [pod |-> NoPod, err |-> errEmptyContainerName, list |-> NoList]
    ELSE LET podList == PodsList(Sprintf_app(nm), ListLimit, answer)
             running == { i \in 1..Len(podList.items) :
                            /\ Len(podList.items[i].containerStatuses) # 0
                            /\ podList.items[i].containerStatuses[1].running }
         IN  IF podList.err # ErrNil
             THEN [pod |-> NoPod, err |-> podList.err, list |-> podList]
             ELSE IF Len(podList.items) = 0
             THEN [pod |-> NoPod, err |-> errNoRunningContainer, list |-> podList]
             ELSE IF running = {}
             THEN [pod |-> NoPod, err |-> errNoRunningContainer, list |-> podList]
             ELSE [pod |-> podList.items[Min(running)], err |-> ErrNil, list |-> podList]

\* -------------------------------------------------------------- the caller

\* How a stored object relates to the one the call would write: absent, the same,
\* or another one.
Relation(stored, wanted) ==
    IF stored = NoObject THEN "absent" ELSE IF stored = wanted THEN "same" ELSE "other"

Snapshot(img, nm, cfg) ==
    [ valid |-> TRUE,
      dep |-> Relation(Stored(deployments, nm), NewDeployment(img, nm, cfg)),
      svc |-> Relation(Stored(services, nm), DefaultedService(NewService(img, nm, cfg))) ]

Begin(o, img, nm, cfg) ==
    /\ pc = "idle"
    /\ op' = o /\ image' = img /\ name' = nm /\ config' = cfg
    /\ calls' = {} /\ listed' = NoList /\ answered' = ErrNil
    /\ pre' = Snapshot(img, nm, cfg)
    /\ UNCHANGED platform

ReturnErr(e) == pc' = "done" /\ err' = e

Goto(l) == pc' = l /\ err' = err

Issue(c) == calls' = calls \cup {c}

\* Run that reconciles the Service whatever the ports are.
Run_ServiceAlways(img, nm, cfg) ==
    /\ Begin("Run", img, nm, cfg)
    /\ IF Len(img) = 0 THEN ReturnErr(errEmptyImageName)
       ELSE IF Len(nm) = 0 THEN ReturnErr(errEmptyContainerName)
       ELSE IF cfg.nil THEN ReturnErr(errNilRuntimeConfig)
       ELSE Goto("createService_Get")

\* Run that returns at once when no replica is asked for.
Run_SkipsZeroReplicas(img, nm, cfg) ==
    /\ Begin("Run", img, nm, cfg)
    /\ IF Len(img) = 0 THEN ReturnErr(errEmptyImageName)
       ELSE IF Len(nm) = 0 THEN ReturnErr(errEmptyContainerName)
       ELSE IF cfg.nil THEN ReturnErr(errNilRuntimeConfig)
       ELSE IF cfg.Replicas = 0 THEN ReturnErr(ErrNil)
       ELSE IF Len(cfg.Ports) # 0 THEN Goto("createService_Get")
       ELSE Goto("createDeployment_Get")

Run(img, nm, cfg) ==
    /\ Begin("Run", img, nm, cfg)
    /\ IF Len(img) = 0 THEN ReturnErr(errEmptyImageName)
       ELSE IF Len(nm) = 0 THEN ReturnErr(errEmptyContainerName)
       ELSE IF cfg.nil THEN ReturnErr(errNilRuntimeConfig)
       ELSE IF Len(cfg.Ports) # 0 THEN Goto("createService_Get")
       ELSE Goto("createDeployment_Get")

\* createService with the update of a found Service switched on.
createService_Get_Updates ==
    /\ pc = "createService_Get"
    /\ \E fault \in BOOLEAN :
         LET e == Get(services, name, fault) IN
         /\ answered' = e
         /\ IF e # ErrNil
            THEN /\ IF ~IsNotFound(e) THEN ReturnErr(e) ELSE Goto("createService_Create")
                 /\ services' = services
            ELSE /\ Goto("createDeployment_Get")
                 /\ services' =
                        Put(services, DefaultedService(NewService(image, name, config)))
    /\ Issue("Services.Get")
    /\ UNCHANGED <<deployments, pods, args, pre, listed>>

createService_Get ==
    /\ pc = "createService_Get"
    /\ \E fault \in BOOLEAN :
         LET e == Get(services, name, fault) IN
         /\ answered' = e
         /\ IF e # ErrNil
            THEN IF ~IsNotFound(e) THEN ReturnErr(e) ELSE Goto("createService_Create")
            ELSE Goto("createDeployment_Get")
    /\ Issue("Services.Get")
    /\ UNCHANGED <<platform, args, pre, listed>>

createService_Create ==
    /\ pc = "createService_Create"
    /\ \E fault \in BOOLEAN :
         LET service == NewService(image, name, config)
             e == CreateErr(services, service, fault)
         IN  /\ answered' = e
             /\ IF e # ErrNil
                THEN ReturnErr(e) /\ services' = services
                ELSE Goto("createDeployment_Get")
                     /\ services' = Put(services, DefaultedService(service))
    /\ Issue("Services.Create")
    /\ UNCHANGED <<deployments, pods, args, pre, listed>>

\* createDeployment deleting the Service its Run created when the lookup fails.
createDeployment_Get_RollsBack ==
    /\ pc = "createDeployment_Get"
    /\ \E fault \in BOOLEAN :
         LET e == Get(deployments, name, fault) IN
         /\ answered' = e
         /\ IF e # ErrNil
            THEN IF ~IsNotFound(e)
                 THEN /\ ReturnErr(e)
                      /\ services' = IF "Services.Create" \in calls
                                      THEN Remove(services, name)
                                      ELSE services
                 ELSE Goto("createDeployment_Create") /\ services' = services
            ELSE Goto("createDeployment_Update") /\ services' = services
    /\ Issue("Deployments.Get")
    /\ UNCHANGED <<deployments, pods, args, pre, listed>>

\* createDeployment taking every failed lookup for not-found.
createDeployment_Get_AnyErrorCreates ==
    /\ pc = "createDeployment_Get"
    /\ \E fault \in BOOLEAN :
         LET e == Get(deployments, name, fault) IN
         /\ answered' = e
         /\ IF e # ErrNil
            THEN Goto("createDeployment_Create")
            ELSE Goto("createDeployment_Update")
    /\ Issue("Deployments.Get")
    /\ UNCHANGED <<platform, args, pre, listed>>

createDeployment_Get ==
    /\ pc = "createDeployment_Get"
    /\ \E fault \in BOOLEAN :
         LET e == Get(deployments, name, fault) IN
         /\ answered' = e
         /\ IF e # ErrNil
            THEN IF ~IsNotFound(e) THEN ReturnErr(e) ELSE Goto("createDeployment_Create")
            ELSE Goto("createDeployment_Update")
    /\ Issue("Deployments.Get")
    /\ UNCHANGED <<platform, args, pre, listed>>

\* createDeployment turning to the update when its create finds the object stored.
createDeployment_Create_ThenUpdates ==
    /\ pc = "createDeployment_Create"
    /\ \E fault \in BOOLEAN :
         LET deployment == NewDeployment(image, name, config)
             e == CreateErr(deployments, deployment, fault)
         IN  /\ answered' = e
             /\ IF e # ErrNil
                THEN /\ IF e = ErrAlreadyExists
                        THEN Goto("createDeployment_Update")
                        ELSE ReturnErr(e)
                     /\ deployments' = deployments
                ELSE Goto("createDeployment_Wait")
                     /\ deployments' = Put(deployments, deployment)
    /\ Issue("Deployments.Create")
    /\ UNCHANGED <<services, pods, args, pre, listed>>

createDeployment_Create ==
    /\ pc = "createDeployment_Create"
    /\ \E fault \in BOOLEAN :
         LET deployment == NewDeployment(image, name, config)
             e == CreateErr(deployments, deployment, fault)
         IN  /\ answered' = e
             /\ IF e # ErrNil
                THEN ReturnErr(e) /\ deployments' = deployments
                ELSE Goto("createDeployment_Wait")
                     /\ deployments' = Put(deployments, deployment)
    /\ Issue("Deployments.Create")
    /\ UNCHANGED <<services, pods, args, pre, listed>>

\* A found Deployment left as it is, as a found Service is.
createDeployment_Update_Skipped ==
    /\ pc = "createDeployment_Update"
    /\ Goto("createDeployment_Wait")
    /\ Issue("Deployments.Update")
    /\ UNCHANGED <<platform, args, pre, listed, answered>>

createDeployment_Update ==
    /\ pc = "createDeployment_Update"
    /\ \E fault \in BOOLEAN :
         LET deployment == NewDeployment(image, name, config)
             e == UpdateErr(deployments, deployment, fault)
         IN  /\ answered' = e
             /\ IF e # ErrNil
                THEN ReturnErr(e) /\ deployments' = deployments
                ELSE Goto("createDeployment_Wait")
                     /\ deployments' = Put(deployments, deployment)
    /\ Issue("Deployments.Update")
    /\ UNCHANGED <<services, pods, args, pre, listed>>

\* The readiness loop returning the error of a failed listing.
createDeployment_Wait_SurfacesError ==
    /\ pc = "createDeployment_Wait"
    /\ \E answer \in ListAnswers :
         LET found == findPod(name, answer) IN
         /\ IF found.pod # NoPod THEN ReturnErr(ErrNil)
            ELSE IF found.err # errNoRunningContainer THEN ReturnErr(found.err)
            ELSE Goto("createDeployment_Sleep")
         /\ listed' = found.list
         /\ answered' = IF found.list.called THEN found.list.err ELSE answered
         /\ calls' = IF found.list.called THEN calls \cup {"Pods.List"} ELSE calls
    /\ UNCHANGED <<platform, args, pre>>

createDeployment_Wait ==
    /\ pc = "createDeployment_Wait"
    /\ \E answer \in ListAnswers :
         LET found == findPod(name, answer) IN
         /\ IF found.pod = NoPod THEN Goto("createDeployment_Sleep") ELSE ReturnErr(ErrNil)
         /\ listed' = found.list
         /\ answered' = IF found.list.called THEN found.list.err ELSE answered
         /\ calls' = IF found.list.called THEN calls \cup {"Pods.List"} ELSE calls
    /\ UNCHANGED <<platform, args, pre>>

createDeployment_Sleep ==
    /\ pc = "createDeployment_Sleep"
    /\ Goto("createDeployment_Wait")
    /\ listed' = NoList
    /\ UNCHANGED <<platform, args, calls, pre, answered>>

Logs(nm) ==
    /\ Begin("Logs", "", nm, NilConfig)
    /\ Goto("Logs_findPod")

Logs_findPod ==
    /\ pc = "Logs_findPod"
    /\ \E answer \in ListAnswers :
         LET found == findPod(name, answer) IN
         /\ IF found.err # ErrNil THEN ReturnErr(found.err) ELSE Goto("Logs_Stream")
         /\ listed' = found.list
         /\ answered' = IF found.list.called THEN found.list.err ELSE answered
         /\ calls' = IF found.list.called THEN calls \cup {"Pods.List"} ELSE calls
    /\ UNCHANGED <<platform, args, pre>>

Logs_Stream ==
    /\ pc = "Logs_Stream"
    /\ \E fault \in BOOLEAN :
         /\ answered' = IF fault THEN ErrServer ELSE ErrNil
         /\ IF fault THEN ReturnErr(ErrServer) ELSE Goto("Logs_Copy")
    /\ Issue("Pods.GetLogs.Stream")
    /\ UNCHANGED <<platform, args, pre, listed>>

Logs_Copy ==
    /\ pc = "Logs_Copy"
    /\ \E e \in {ErrNil, ErrStream} : ReturnErr(e) /\ answered' = e
    /\ UNCHANGED <<platform, args, calls, pre, listed>>

\* Cancel that starts with the Deployment deletion.
Cancel_DeploymentFirst(nm) ==
    /\ Begin("Cancel", "", nm, NilConfig)
    /\ IF Len(nm) = 0
       THEN ReturnErr(errEmptyContainerName)
       ELSE Goto("Cancel_Deployments")

\* Cancel without the check of the name.
Cancel_Unchecked(nm) ==
    /\ Begin("Cancel", "", nm, NilConfig)
    /\ Goto("Cancel_Services")

Cancel(nm) ==
    /\ Begin("Cancel", "", nm, NilConfig)
    /\ IF Len(nm) = 0 THEN ReturnErr(errEmptyContainerName) ELSE Goto("Cancel_Services")

\* Cancel that returns the not-found answer of the Service deletion.
Cancel_Services_Strict ==
    /\ pc = "Cancel_Services"
    /\ \E fault \in BOOLEAN :
         LET e == DeleteErr(services, name, fault) IN
         /\ answered' = e
         /\ services' = IF e = ErrNil THEN Remove(services, name) ELSE services
         /\ IF e # ErrNil THEN ReturnErr(e) ELSE Goto("Cancel_Deployments")
    /\ Issue("Services.Delete")
    /\ UNCHANGED <<deployments, pods, args, pre, listed>>

\* Cancel that returns once the Service is deleted.
Cancel_Services_ReturnsEarly ==
    /\ pc = "Cancel_Services"
    /\ \E fault \in BOOLEAN :
         LET e == DeleteErr(services, name, fault) IN
         /\ answered' = e
         /\ services' = IF e = ErrNil THEN Remove(services, name) ELSE services
         /\ IF e # ErrNil /\ ~IsNotFound(e) THEN ReturnErr(e)
            ELSE IF e = ErrNil THEN ReturnErr(ErrNil) ELSE Goto("Cancel_Deployments")
    /\ Issue("Services.Delete")
    /\ UNCHANGED <<deployments, pods, args, pre, listed>>

Cancel_Services ==
    /\ pc = "Cancel_Services"
    /\ \E fault \in BOOLEAN :
         LET e == DeleteErr(services, name, fault) IN
         /\ answered' = e
         /\ services' = IF e = ErrNil THEN Remove(services, name) ELSE services
         /\ IF e # ErrNil /\ ~IsNotFound(e) THEN ReturnErr(e) ELSE Goto("Cancel_Deployments")
    /\ Issue("Services.Delete")
    /\ UNCHANGED <<deployments, pods, args, pre, listed>>

\* Cancel that returns the not-found answer of the Deployment deletion.
Cancel_Deployments_Strict ==
    /\ pc = "Cancel_Deployments"
    /\ \E fault \in BOOLEAN :
         LET e == DeleteErr(deployments, name, fault) IN
         /\ answered' = e
         /\ deployments' = IF e = ErrNil THEN Remove(deployments, name) ELSE deployments
         /\ IF e # ErrNil THEN ReturnErr(e) ELSE ReturnErr(ErrNil)
    /\ Issue("Deployments.Delete")
    /\ UNCHANGED <<services, pods, args, pre, listed>>

Cancel_Deployments ==
    /\ pc = "Cancel_Deployments"
    /\ \E fault \in BOOLEAN :
         LET e == DeleteErr(deployments, name, fault) IN
         /\ answered' = e
         /\ deployments' = IF e = ErrNil THEN Remove(deployments, name) ELSE deployments
         /\ IF e # ErrNil /\ ~IsNotFound(e) THEN ReturnErr(e) ELSE ReturnErr(ErrNil)
    /\ Issue("Deployments.Delete")
    /\ UNCHANGED <<services, pods, args, pre, listed>>

Returned ==
    /\ pc = "done"
    /\ pc' = "idle" /\ op' = "none" /\ image' = "" /\ name' = "" /\ config' = NilConfig
    /\ err' = ErrNil /\ calls' = {} /\ pre' = NoSnapshot /\ listed' = NoList
    /\ answered' = ErrNil
    /\ UNCHANGED platform

\* The process is killed while a call is in progress: the call's remote calls
\* made so far stand, the rest are never made, and nothing is returned.
Killed ==
    /\ pc \notin {"idle", "done", "killed"}
    /\ pc' = "killed"
    /\ err' = ErrNil /\ listed' = NoList /\ answered' = ErrNil
    /\ UNCHANGED <<platform, args, calls, pre>>

\* A new process of the program starts after the kill.
Restarted ==
    /\ pc = "killed"
    /\ pc' = "idle" /\ op' = "none" /\ image' = "" /\ name' = "" /\ config' = NilConfig
    /\ err' = ErrNil /\ calls' = {} /\ pre' = NoSnapshot /\ listed' = NoList
    /\ answered' = ErrNil
    /\ UNCHANGED platform

\* ------------------------------------------- the platform's other clients
\* Another client of the platform (another process running this program, or an
\* operator) creates or deletes the objects the caller works on.

\* Another client's change is taken where the caller can tell: while the caller is
\* idle, or stands before a call that reads or writes the kind of object changed.
\* A change made while the caller does something else is, to the caller, the same
\* change made at the next such point.
Exposed ==
    pc \in { "idle", "createService_Get", "createService_Create", "createDeployment_Get",
             "createDeployment_Create", "createDeployment_Update", "Cancel_Services",
             "Cancel_Deployments" }

PodsExposed == pc \in {"idle", "createDeployment_Wait", "Logs_findPod"}

Disturbed == Exposed /\ pre' = IF pc = "idle" THEN pre ELSE NoSnapshot

ExternalDeployment ==
    /\ \E nm \in ResourceNames :
         \/ /\ deployments[nm] = NoObject
            /\ \E img \in ImageArgs \ {""}, cfg \in Runtimes :
                 deployments' = Put(deployments, NewDeployment(img, nm, cfg))
         \/ deployments[nm] # NoObject /\ deployments' = Remove(deployments, nm)
    /\ Disturbed
    /\ UNCHANGED <<services, pods, pc, args, err, calls, listed, answered>>

ExternalService ==
    /\ \E nm \in ResourceNames :
         \/ /\ services[nm] = NoObject
            /\ \E cfg \in Runtimes :
                 /\ Len(cfg.Ports) # 0
                 /\ services' = Put(services, DefaultedService(NewService("", nm, cfg)))
         \/ services[nm] # NoObject /\ services' = Remove(services, nm)
    /\ Disturbed
    /\ UNCHANGED <<deployments, pods, pc, args, err, calls, listed, answered>>

InsertAt(s, i, x) == SubSeq(s, 1, i - 1) \o <<x>> \o SubSeq(s, i, Len(s))

RemoveAt(s, i) == SubSeq(s, 1, i - 1) \o SubSeq(s, i + 1, Len(s))

PodChange ==
    /\ PodsExposed
    /\ \/ /\ Len(pods) < MaxPods
          /\ \E p \in PodKinds, i \in 1..(Len(pods) + 1) : pods' = InsertAt(pods, i, p)
       \/ \E i \in 1..Len(pods) : pods' = RemoveAt(pods, i)
       \/ \E i \in 1..Len(pods), p \in PodKinds :
            /\ p.app = pods[i].app /\ p # pods[i]
            /\ pods' = [pods EXCEPT ![i] = p]
    /\ UNCHANGED <<deployments, services, pc, args, err, calls, pre, listed, answered>>

\* A platform whose controller creates pods labelled app=name, and starts their
\* containers, only while a Deployment of that name with at least one replica is
\* stored. What the controller may do depends on the stored Deployment, so its
\* steps are taken wherever a Deployment can change or a pod is looked at.
Startable(app) ==
    app \in ResourceNames
        => (deployments[app] # NoObject /\ deployments[app].replicas >= 1)

ControllerPods ==
    /\ Exposed \/ PodsExposed
    /\ \/ /\ Len(pods) < MaxPods
          /\ \E p \in PodKinds, i \in 1..(Len(pods) + 1) :
               /\ Startable(p.app)
               /\ pods' = InsertAt(pods, i, p)
       \/ \E i \in 1..Len(pods) : pods' = RemoveAt(pods, i)
       \/ \E i \in 1..Len(pods), p \in PodKinds :
            /\ p.app = pods[i].app /\ p # pods[i]
            /\ (Len(p.containerStatuses) # 0 /\ p.containerStatuses[1].running)
                 => Startable(p.app)
            /\ pods' = [pods EXCEPT ![i] = p]
    /\ UNCHANGED <<deployments, services, pc, args, err, calls, pre, listed, answered>>

\* ----------------------------------------------------------- specification

Init ==
    /\ deployments = [nm \in ResourceNames |-> NoObject]
    /\ services = [nm \in ResourceNames |-> NoObject]
    /\ pods = <<>>
    /\ pc = "idle" /\ op = "none" /\ image = "" /\ name = "" /\ config = NilConfig
    /\ err = ErrNil /\ calls = {} /\ pre = NoSnapshot /\ listed = NoList
    /\ answered = ErrNil

Next ==
    \/ \E img \in ImageArgs, nm \in NameArgs, cfg \in ConfigArgs : Run(img, nm, cfg)
    \/ createService_Get
    \/ createService_Create
    \/ createDeployment_Get
    \/ createDeployment_Create
    \/ createDeployment_Update
    \/ createDeployment_Wait
    \/ createDeployment_Sleep
    \/ \E nm \in NameArgs : Logs(nm)
    \/ Logs_findPod
    \/ Logs_Stream
    \/ Logs_Copy
    \/ \E nm \in NameArgs : Cancel(nm)
    \/ Cancel_Services
    \/ Cancel_Deployments
    \/ Returned
    \/ Killed
    \/ Restarted
    \/ ExternalDeployment
    \/ ExternalService
    \/ PodChange

Spec == Init /\ [][Next]_vars

\* The program on the platform whose controller starts pods only for Deployments
\* with at least one replica.
ControlledNext ==
    \/ \E img \in ImageArgs, nm \in NameArgs, cfg \in ConfigArgs : Run(img, nm, cfg)
    \/ createService_Get
    \/ createService_Create
    \/ createDeployment_Get
    \/ createDeployment_Create
    \/ createDeployment_Update
    \/ createDeployment_Wait
    \/ createDeployment_Sleep
    \/ \E nm \in NameArgs : Logs(nm)
    \/ Logs_findPod
    \/ Logs_Stream
    \/ Logs_Copy
    \/ \E nm \in NameArgs : Cancel(nm)
    \/ Cancel_Services
    \/ Cancel_Deployments
    \/ Returned
    \/ Killed
    \/ Restarted
    \/ ExternalDeployment
    \/ ExternalService
    \/ ControllerPods

ControlledSpec == Init /\ [][ControlledNext]_vars

\* The readiness loop under fair scheduling: the caller is not stopped in its
\* sleep, and the platform does not fail every listing for ever.
PollAnswered == createDeployment_Wait /\ listed'.err = ErrNil

LiveSpec ==
    Init /\ [][Next]_vars /\ WF_vars(createDeployment_Sleep) /\ SF_vars(PollAnswered)

\* ------------------------------------------------------------------ claims

CallerStep == pc' # pc /\ pc' # "killed"

Returns(o) == pc = "done" /\ op = o

Undisturbed == pre.valid

\* What Run must leave stored as the Deployment, field by field.
DeploymentReflects(d, img, nm, cfg) ==
    /\ d.kind = "Deployment" /\ d.name = nm /\ d.namespace = "default"
    /\ d.labels = [app |-> nm] /\ d.selector = [app |-> nm] /\ d.templateLabels = [app |-> nm]
    /\ d.replicas = cfg.Replicas
    /\ Len(d.containers) = 1
    /\ d.containers[1].name = nm
    /\ d.containers[1].image = img
    /\ Len(d.containers[1].ports) = Len(cfg.Ports)
    /\ \A i \in 1..Len(cfg.Ports) : d.containers[1].ports[i] = [containerPort |-> cfg.Ports[i]]

\* C1: when Run returns success for a name under which a Deployment was already
\* stored, and no other client touched the objects during the call, the stored
\* Deployment has the image, replica count and container ports of this call's
\* arguments, and no field of the Deployment it replaced.
C1_ReplaceSemantics ==
    (Returns("Run") /\ err = ErrNil /\ Undisturbed /\ pre.dep # "absent")
        => DeploymentReflects(deployments[name], image, name, config)

\* A Run that returned success after updating a Deployment that differed from
\* the one it asked for.
C1_Witness ==
    /\ Returns("Run") /\ err = ErrNil /\ Undisturbed
    /\ pre.dep = "other"
    /\ "Deployments.Update" \in calls

\* C2: a Run whose runtime has no ports issues no Service lookup and no Service
\* create, and none of its steps changes the stored Services.
C2_NoServiceWithoutPorts ==
    [][ (op' = "Run" /\ ~config'.nil /\ Len(config'.Ports) = 0)
          => /\ "Services.Get" \notin calls'
             /\ "Services.Create" \notin calls'
             /\ (CallerStep => services' = services) ]_vars

\* A Run without ports that went all the way to success while a Service was stored.
C2_Witness ==
    /\ Returns("Run") /\ err = ErrNil /\ Len(config.Ports) = 0
    /\ "Deployments.Create" \in calls
    /\ services[name] # NoObject

\* C3: when Cancel returns success and no other client touched the objects during
\* the call, neither a Deployment nor a Service of that name is stored, whatever
\* was stored when the call began.
C3_CancelLeavesNothing ==
    (Returns("Cancel") /\ err = ErrNil /\ Undisturbed)
        => (deployments[name] = NoObject /\ services[name] = NoObject)

\* A successful Cancel that began with both objects stored.
C3_Witness ==
    /\ Returns("Cancel") /\ err = ErrNil /\ Undisturbed
    /\ pre.dep # "absent" /\ pre.svc # "absent"

\* A successful Cancel that began with only the Deployment stored.
C3_WitnessOnlyDeployment ==
    /\ Returns("Cancel") /\ err = ErrNil /\ Undisturbed
    /\ pre.dep # "absent" /\ pre.svc = "absent"

\* A successful Cancel that began with only the Service stored.
C3_WitnessOnlyService ==
    /\ Returns("Cancel") /\ err = ErrNil /\ Undisturbed
    /\ pre.dep = "absent" /\ pre.svc # "absent"

\* C4: Cancel of a non-empty name under which nothing is stored returns no error
\* whenever the platform answers both deletions (a not-found answer is never
\* returned), and no step of it changes the stored Deployments, Services or Pods.
C4_CancelAbsentIsNoOp ==
    [][ (op' = "Cancel" /\ Len(name') # 0 /\ pre'.valid
            /\ pre'.dep = "absent" /\ pre'.svc = "absent")
          => /\ (CallerStep /\ pc # "done" => UNCHANGED platform)
             /\ deployments'[name'] = NoObject /\ services'[name'] = NoObject
             /\ (pc' = "done" /\ err' # ErrServer => err' = ErrNil) ]_vars

\* A Cancel that found nothing to delete, both deletions answered not-found, and
\* returned success.
C4_Witness ==
    /\ Returns("Cancel") /\ err = ErrNil /\ Undisturbed
    /\ pre.dep = "absent" /\ pre.svc = "absent"
    /\ calls = {"Services.Delete", "Deployments.Delete"}

\* A pod labelled app=nm whose first container is running.
RunningFor(p, nm) ==
    /\ p.app = nm
    /\ Len(p.containerStatuses) # 0
    /\ p.containerStatuses[1].running

SomeRunningPod(nm) == \E i \in 1..Len(pods) : RunningFor(pods[i], nm)

SomePodLabelled(nm) == \E i \in 1..Len(pods) : pods[i].app = nm

\* C5: when Logs looks for the pod of a non-empty name and no pod labelled app=name
\* has a running container, Logs returns there with an error, which is the
\* no-running-container (not-found) error whenever the platform answered the
\* listing, and it has issued no log-stream request.
C5_LogsWithoutRunningPod ==
    [][ (pc = "Logs_findPod" /\ CallerStep /\ Len(name) # 0 /\ ~SomeRunningPod(name))
          => /\ pc' = "done"
             /\ err' # ErrNil
             /\ (listed'.err = ErrNil => err' = errNoRunningContainer)
             /\ "Pods.GetLogs.Stream" \notin calls' ]_vars

\* Logs returned the no-running-container error although pods labelled app=name
\* are there, none of them running.
C5_Witness ==
    /\ Returns("Logs") /\ err = errNoRunningContainer
    /\ Len(listed.items) # 0
    /\ SomePodLabelled(name) /\ ~SomeRunningPod(name)
    /\ "Pods.GetLogs.Stream" \notin calls

\* Logs returned the no-running-container error with no pod labelled app=name.
C5_WitnessNoPod ==
    /\ Returns("Logs") /\ err = errNoRunningContainer
    /\ listed.called /\ Len(listed.items) = 0
    /\ ~SomePodLabelled(name) /\ Len(pods) # 0

InvalidArguments ==
    \/ op = "Run" /\ (Len(image) = 0 \/ Len(name) = 0 \/ config.nil)
    \/ op \in {"Cancel", "Logs"} /\ Len(name) = 0

InvalidArgumentErrors == {errEmptyImageName, errEmptyContainerName, errNilRuntimeConfig}

\* C6: Run with an empty image, an empty name or a nil runtime, and Cancel or Logs
\* with an empty name, return an invalid-argument error, have issued no remote
\* call, and none of their steps changes the stored Deployments, Services or Pods.
C6_ValidationFailsFast ==
    [][ InvalidArguments'
          => /\ calls' = {}
             /\ (CallerStep => UNCHANGED platform)
             /\ (pc' = "done" => err' \in InvalidArgumentErrors)
             /\ (pc' = "done" /\ op' \in {"Cancel", "Logs"} => err' = errEmptyContainerName)
             /\ (pc' = "done" /\ op' = "Run" /\ Len(image') = 0 => err' = errEmptyImageName)
             /\ pc' \in {"done", "Logs_findPod", "killed"} ]_vars

\* Run returned the nil-runtime error while objects of that name were stored.
C6_Witness ==
    /\ Returns("Run") /\ err = errNilRuntimeConfig
    /\ Len(image) # 0 /\ Len(name) # 0
    /\ deployments["web"] # NoObject /\ Len(pods) # 0

\* Logs with an empty name returned the empty-name error.
C6_WitnessLogs == Returns("Logs") /\ Len(name) = 0 /\ err = errEmptyContainerName

\* Cancel with an empty name returned the empty-name error.
C6_WitnessCancel ==
    Returns("Cancel") /\ Len(name) = 0 /\ err = errEmptyContainerName /\ services["web"] # NoObject

\* C7 as stated: every Cancel of a non-empty name issues a delete call for the
\* Service and a delete call for the Deployment, whatever the Service deletion
\* answered.
C7_BothDeletionsAlways ==
    (Returns("Cancel") /\ Len(name) # 0)
        => ("Services.Delete" \in calls /\ "Deployments.Delete" \in calls)

\* C7 amended: every Cancel of a non-empty name issues a delete call for the
\* Service; it issues the delete call for the Deployment when the Service deletion
\* succeeded or answered not-found, and when the Service deletion failed with any
\* other error it returns that error and issues no delete call for the Deployment.
C7_DeploymentDeletionUnlessServiceError ==
    [][ /\ (pc = "Cancel_Services" /\ CallerStep)
          => /\ calls' = {"Services.Delete"}
             /\ \/ pc' = "Cancel_Deployments" /\ services'[name] = NoObject
                \/ pc' = "done" /\ err' = ErrServer /\ services' = services
        /\ (pc = "Cancel_Deployments" /\ CallerStep)
          => /\ calls' = {"Services.Delete", "Deployments.Delete"}
             /\ pc' = "done"
        /\ (pc' = "done" /\ op' = "Cancel" /\ Len(name') # 0)
          => /\ "Services.Delete" \in calls'
             /\ ("Deployments.Delete" \notin calls' => err' = ErrServer) ]_vars

\* Cancel deleted the Deployment after the Service deletion answered not-found.
C7_Witness ==
    /\ Returns("Cancel") /\ err = ErrNil /\ Undisturbed
    /\ pre.svc = "absent" /\ pre.dep # "absent"
    /\ calls = {"Services.Delete", "Deployments.Delete"}
    /\ deployments[name] = NoObject

\* Cancel returned the platform's error of the Service deletion and left the
\* Deployment stored.
C7_WitnessServiceError ==
    /\ Returns("Cancel") /\ err = ErrServer /\ Undisturbed
    /\ calls = {"Services.Delete"}
    /\ deployments[name] # NoObject

\* The platform's answer to the last listing holds a pod labelled app=nm with a
\* running container.
ListedRunning(l, nm) ==
    /\ l.called /\ l.err = ErrNil
    /\ \E i \in 1..Len(l.items) : RunningFor(l.items[i], nm)

\* C8: Run returns success only when the listing of its last poll held a pod
\* labelled app=name with a running container; a poll whose listing holds none, or
\* fails, is followed by the sleep and the sleep by another poll; and once Run polls
\* it returns no error, so a failed listing is never returned to the caller.
C8_ReturnsOnlyOnRunningPod ==
    [][ /\ (pc = "createDeployment_Wait" /\ CallerStep)
          => IF ListedRunning(listed', name)
             THEN pc' = "done" /\ err' = ErrNil
             ELSE pc' = "createDeployment_Sleep"
        /\ (pc = "createDeployment_Sleep" /\ CallerStep) => pc' = "createDeployment_Wait"
        /\ (pc' = "done" /\ op' = "Run" /\ err' = ErrNil) => ListedRunning(listed', name')
        /\ (pc' = "done" /\ op' = "Run" /\ "Pods.List" \in calls') => err' = ErrNil ]_vars

\* Run returned success after a poll that listed a running pod.
C8_Witness ==
    /\ Returns("Run") /\ err = ErrNil
    /\ "Pods.List" \in calls
    /\ ListedRunning(listed, name)

\* Run sleeps after a poll whose listing failed, and has not returned.
C8_WitnessQueryError ==
    /\ pc = "createDeployment_Sleep" /\ op = "Run"
    /\ listed.called /\ listed.err = ErrServer

OrdinalName == <<"0", "1", "2", "3">>

\* C10: when Run with a non-empty ports list returns success for a name under which
\* nothing was stored, and no other client touched the objects, it has created a
\* Deployment with spec.replicas replicas, label and selector app=name and one
\* container port per spec port in order, and a Service with selector app=name and
\* one ServicePort per spec port, in order, named "0", "1", ..., whose type is
\* LoadBalancer when publicAddress is set and ClusterIP otherwise.
C10_FreshRunCreatesBoth ==
    (Returns("Run") /\ err = ErrNil /\ Undisturbed
        /\ pre.dep = "absent" /\ pre.svc = "absent" /\ Len(config.Ports) # 0)
    => /\ {"Deployments.Create", "Services.Create"} \subseteq calls
       /\ "Deployments.Update" \notin calls
       /\ DeploymentReflects(deployments[name], image, name, config)
       /\ LET svc == services[name] IN
          /\ svc.kind = "Service" /\ svc.name = name
          /\ svc.selector = [app |-> name]
          /\ Len(svc.ports) = Len(config.Ports)
          /\ \A i \in 1..Len(config.Ports) :
               /\ svc.ports[i].name = OrdinalName[i]
               /\ svc.ports[i].port = config.Ports[i]
          /\ svc.type = IF config.PublicAddress THEN "LoadBalancer" ELSE "ClusterIP"

\* A fresh public Run with two ports and two replicas that returned success.
C10_Witness ==
    /\ Returns("Run") /\ err = ErrNil /\ Undisturbed
    /\ pre.dep = "absent" /\ pre.svc = "absent"
    /\ Len(config.Ports) >= 2 /\ config.PublicAddress /\ config.Replicas = 2
    /\ services[name] # NoObject /\ deployments[name] # NoObject

\* A fresh cluster-internal Run with ports that returned success.
C10_WitnessInternal ==
    /\ Returns("Run") /\ err = ErrNil /\ Undisturbed
    /\ pre.dep = "absent" /\ pre.svc = "absent"
    /\ Len(config.Ports) # 0 /\ ~config.PublicAddress
    /\ services[name] # NoObject

\* Run was called with valid arguments and a runtime that has ports.
RunWithPorts ==
    /\ op = "Run" /\ Len(image) # 0 /\ Len(name) # 0 /\ ~config.nil
    /\ Len(config.Ports) # 0

\* C11: no step of a Run with ports changes a Service that is stored under its
\* name; and while no other client touches the objects, a Run that found a Service
\* stored when it was called issues no Service create and leaves the Service
\* standing to its own request as it stood at the call (the same, or different).
C11_ExistingServiceUntouched ==
    [][ RunWithPorts'
          => /\ (CallerStep /\ services[name'] # NoObject => services' = services)
             /\ (pre'.valid /\ pre'.svc # "absent"
                   => /\ "Services.Create" \notin calls'
                      /\ "Services.Delete" \notin calls'
                      /\ Relation(services'[name'],
                                  DefaultedService(NewService(image', name', config')))
                            = pre'.svc) ]_vars

\* A Run with ports returned success over a Service that differs from the one its
\* arguments describe, and the differing Service is still stored.
C11_Witness ==
    /\ RunWithPorts /\ Returns("Run") /\ err = ErrNil /\ Undisturbed
    /\ pre.svc = "other"
    /\ "Services.Get" \in calls
    /\ services[name] # DefaultedService(NewService(image, name, config))
    /\ services[name] # NoObject

\* The lookup just made failed with an error other than not-found.
LookupFailed(at) ==
    pc = at /\ CallerStep /\ answered' # ErrNil /\ ~IsNotFound(answered')

\* C12: when the Service lookup or the Deployment lookup of a Run fails with an
\* error other than not-found, that step returns the same error from Run, with
\* nothing stored changed, no create or update issued for that kind of object, no
\* second lookup and no pod listing (the readiness loop is not entered).
C12_LookupErrorIsFatal ==
    [][ /\ LookupFailed("createService_Get")
          => /\ pc' = "done" /\ op' = "Run" /\ err' = answered'
             /\ calls' = {"Services.Get"}
             /\ UNCHANGED platform
        /\ LookupFailed("createDeployment_Get")
          => /\ pc' = "done" /\ op' = "Run" /\ err' = answered'
             /\ "Deployments.Get" \notin calls
             /\ calls' \cap {"Deployments.Create", "Deployments.Update", "Pods.List"} = {}
             /\ UNCHANGED platform
        /\ (pc = "done" /\ pc' # "done") => pc' = "idle" ]_vars

\* Run returned the platform's error from a failed Deployment lookup, made after
\* its Service had been dealt with.
C12_Witness ==
    /\ Returns("Run") /\ err = ErrServer /\ answered = ErrServer
    /\ calls \cap {"Deployments.Get", "Deployments.Create", "Deployments.Update"}
         = {"Deployments.Get"}
    /\ "Services.Get" \in calls

\* Run returned the platform's error from a failed Service lookup.
C12_WitnessService ==
    /\ Returns("Run") /\ err = ErrServer /\ answered = ErrServer
    /\ calls = {"Services.Get"}

\* C13: in every state of a Cancel that began with both a Deployment and a Service
\* stored under its name and that no other client disturbed (the states while
\* it runs, after it returned, and those a kill of the process leaves behind), the
\* Deployment deletion has been issued only after the Service deletion, and it is
\* not the case that the Deployment is absent while the Service is still stored.
C13_ServiceBeforeDeployment ==
    (op = "Cancel" /\ Len(name) # 0 /\ Undisturbed /\ pre.dep # "absent" /\ pre.svc # "absent")
        => /\ ("Deployments.Delete" \in calls => "Services.Delete" \in calls)
           /\ ~(deployments[name] = NoObject /\ services[name] # NoObject)

\* The process was killed between the two deletions of such a Cancel: the Service
\* is gone and the Deployment is still stored.
C13_Witness ==
    /\ pc = "killed" /\ op = "Cancel" /\ Undisturbed
    /\ pre.dep # "absent" /\ pre.svc # "absent"
    /\ calls = {"Services.Delete"}
    /\ services[name] = NoObject /\ deployments[name] # NoObject

\* Such a Cancel ran to its end with both objects deleted.
C13_WitnessCompleted ==
    /\ Returns("Cancel") /\ err = ErrNil /\ Undisturbed
    /\ pre.dep # "absent" /\ pre.svc # "absent"
    /\ services[name] = NoObject /\ deployments[name] = NoObject

\* The write just made was rejected by the platform.
WriteRejected(at) == pc = at /\ CallerStep /\ answered' # ErrNil

\* C14: the lookup and the write of the Deployment are two separate calls, between
\* which another client (another Run of the same name, or an operator) can create
\* or delete the Deployment. When the platform rejects the write, that step
\* returns the platform's error from Run with the Deployment left as the other
\* client made it, and no Run issues both a Deployment create and a Deployment
\* update; a Run returns already-exists or not-found only when another client
\* changed the objects during the call.
C14_RejectedWriteIsReturned ==
    [][ /\ WriteRejected("createDeployment_Create")
          => /\ pc' = "done" /\ op' = "Run" /\ err' = answered'
             /\ deployments' = deployments
        /\ WriteRejected("createDeployment_Update")
          => /\ pc' = "done" /\ op' = "Run" /\ err' = answered'
             /\ deployments' = deployments
        /\ op' = "Run"
          => ~({"Deployments.Create", "Deployments.Update"} \subseteq calls')
        /\ (op' = "Run" /\ pc' = "done" /\ err' \in {ErrAlreadyExists, ErrNotFound})
          => ~pre'.valid ]_vars

\* Another client created the Deployment between Run's lookup and its create: the
\* create was rejected and Run returned already-exists without an update.
C14_Witness ==
    /\ Returns("Run") /\ err = ErrAlreadyExists /\ answered = ErrAlreadyExists
    /\ calls \cap {"Deployments.Get", "Deployments.Create", "Deployments.Update"}
         = {"Deployments.Get", "Deployments.Create"}
    /\ deployments[name] # NoObject
    /\ ~Undisturbed

\* Another client deleted the Deployment between Run's lookup and its update: the
\* update was rejected and Run returned not-found without a create.
C14_WitnessDeleted ==
    /\ Returns("Run") /\ err = ErrNotFound /\ answered = ErrNotFound
    /\ calls \cap {"Deployments.Get", "Deployments.Create", "Deployments.Update"}
         = {"Deployments.Get", "Deployments.Update"}
    /\ deployments[name] = NoObject
    /\ ~Undisturbed

DeploymentCalls == {"Deployments.Get", "Deployments.Create", "Deployments.Update"}

\* C15: a Run with ports deals with the Service before the Deployment and undoes
\* nothing. A Service step issues no Deployment call and changes no Deployment,
\* and when it ends the Run it returns the error the platform answered; a
\* Deployment lookup is made only after the Service lookup. A Deployment step
\* that ends the Run returns the error the platform answered, changes no Service
\* and no Service deletion is ever issued; so when a Run that created its Service
\* returns an error from the Deployment step, the created Service is still stored
\* (no other client interfering), and when it returns an error from the Service
\* step the Deployment stands as it did at the call.
C15_ServiceFirstNoRollback ==
    [][ /\ (pc \in {"createService_Get", "createService_Create"} /\ CallerStep)
          => /\ calls' \cap DeploymentCalls = {}
             /\ deployments' = deployments
             /\ pc' = "done" => (err' # ErrNil /\ err' = answered')
        /\ (pc \in {"createDeployment_Get", "createDeployment_Create",
                     "createDeployment_Update"} /\ CallerStep /\ pc' = "done")
          => /\ err' # ErrNil /\ err' = answered'
             /\ services' = services
        /\ RunWithPorts'
          => /\ "Services.Delete" \notin calls'
             /\ (calls' \cap DeploymentCalls # {} => "Services.Get" \in calls')
             /\ (pc' = "done" /\ err' # ErrNil /\ pre'.valid)
                  => IF calls' \cap DeploymentCalls = {}
                     THEN Relation(deployments'[name'], NewDeployment(image', name', config'))
                            = pre'.dep
                     ELSE "Services.Create" \in calls'
                            => services'[name']
                                 = DefaultedService(NewService(image', name', config')) ]_vars

\* Run created its Service, then failed in the Deployment step: it returned the
\* error and the Service it created is stored.
C15_Witness ==
    /\ RunWithPorts /\ Returns("Run") /\ err = ErrServer /\ Undisturbed
    /\ pre.svc = "absent"
    /\ "Services.Create" \in calls /\ calls \cap DeploymentCalls # {}
    /\ services[name] = DefaultedService(NewService(image, name, config))

\* Run failed in the Service step over a stored Deployment that it never looked up.
C15_WitnessServiceStep ==
    /\ RunWithPorts /\ Returns("Run") /\ err # ErrNil /\ Undisturbed
    /\ "Services.Get" \in calls /\ calls \cap DeploymentCalls = {}
    /\ pre.dep = "other" /\ deployments[name] # NoObject

InReadinessLoop == pc \in {"createDeployment_Wait", "createDeployment_Sleep"}

\* Run was called with valid arguments and a runtime asking for no replica.
ZeroReplicaRun ==
    /\ op = "Run" /\ Len(image) # 0 /\ Len(name) # 0 /\ ~config.nil
    /\ config.Replicas = 0

\* Such a Run is in its readiness loop, the Deployment it wrote is stored, and no
\* pod labelled app=name has a running container.
WaitsForNoPod ==
    /\ ZeroReplicaRun /\ InReadinessLoop
    /\ deployments[name] = NewDeployment(image, name, config)
    /\ ~SomeRunningPod(name)

\* C16: on a platform that starts pods only for Deployments with at least one
\* replica, a Run asking for no replica is not cut short: it goes on to its Service
\* or Deployment lookup, its successful create or update stores the Deployment
\* with no replica and enters the readiness loop; and once it is in the loop with
\* that Deployment stored and no pod labelled app=name running, it stays so at
\* every later step (it never returns), unless the process is killed.
C16_ZeroReplicasRunNeverReturns ==
    [][ /\ (pc = "idle" /\ ZeroReplicaRun')
          => pc' \in {"createService_Get", "createDeployment_Get"}
        /\ (ZeroReplicaRun /\ CallerStep /\ answered' = ErrNil
              /\ pc \in {"createDeployment_Create", "createDeployment_Update"})
          => /\ pc' = "createDeployment_Wait"
             /\ deployments'[name] = NewDeployment(image, name, config)
             /\ deployments'[name].replicas = 0
        /\ WaitsForNoPod => (WaitsForNoPod' \/ pc' = "killed") ]_vars

\* A Run asking for no replica replaced a Deployment that had replicas, listed the
\* pods and sleeps in its loop; a pod labelled app=name is left, not running.
C16_Witness ==
    /\ WaitsForNoPod /\ pc = "createDeployment_Sleep"
    /\ "Deployments.Update" \in calls /\ "Pods.List" \in calls
    /\ listed.err = ErrNil
    /\ SomePodLabelled(name)

\* A Run asking for no replica created its Deployment and sleeps in its loop.
C16_WitnessCreated ==
    /\ WaitsForNoPod /\ pc = "createDeployment_Sleep"
    /\ "Deployments.Create" \in calls /\ "Pods.List" \in calls

\* C9 as stated: if from some point on a pod labelled app=name (the i-th the
\* platform lists, for any i) has a running container for ever, a Run of that name
\* that is in its readiness loop eventually leaves it, whatever other pods carry
\* the label and wherever the platform lists them.
C9_ReadinessDetected ==
    \A nm \in ResourceNames : \A i \in 1..MaxPods :
        (<>[](i <= Len(pods) /\ RunningFor(pods[i], nm)))
            => ((InReadinessLoop /\ name = nm) ~> ~InReadinessLoop)

====
